---- MODULE Spec2Model ----
(***************************************************************************)
(* EntityMap / EntityMapper of bevy_ecs (entity/map_entities.rs).          *)
(*                                                                         *)
(* The table (EntityMap), the mapper session (EntityMapper) and            *)
(* with_mapper are translated from map_entities.rs.  The World is an       *)
(* external collaborator of that file: its three primitives spawn_empty,   *)
(* despawn and try_reserve_generations are modelled from their contract.   *)
(***************************************************************************)
EXTENDS Integers, Sequences, FiniteSets, TLC

(* ------------------------------ bounds -------------------------------- *)
\* number of slots of the arena
NumIndex == 2
\* generations the arena may consume in all, over all its slots
MaxGen == 3
\* number of foreign identifiers offered as keys
NumForeign == 2

(* ----------------------------- identifiers ---------------------------- *)
Index == 0 .. (NumIndex - 1)

\* Entity { generation: u32, index: u32 }
Entity(i, g) == [index |-> i, generation |-> g]

\* u32 addition; no generation of the bounded arena exceeds MaxGen + 1, far
\* below 2^32, where it is integer addition (U32Add is the sum at full width)
AddU32(a, b) == a + b

\* every identifier of the bounded arena; a run that leaves the table to its
\* sessions may consume one generation more than MaxGen
Entities == {Entity(i, g) : i \in Index, g \in 0 .. (MaxGen + 1)}

\* the foreign identifiers used as keys: (0,0), (0,1), (1,0), ...
ForeignIds == {Entity(n \div 2, n % 2) : n \in 0 .. (NumForeign - 1)}

\* the local identifiers a caller passes to insert as `to`
Targets == {Entity(0, 0), Entity(0, 1)}

\* stands where no identifier is carried
NoEntity == Entity(-1, -1)

(* --------------------------- returned values -------------------------- *)
Ok(e) == [tag |-> "Ok", val |-> e]
EntityNotFound(e) == [tag |-> "EntityNotFound", val |-> e]
Some(e) == [tag |-> "Some", val |-> e]
None == [tag |-> "None", val |-> NoEntity]
Bool(b) == [tag |-> IF b THEN "true" ELSE "false", val |-> NoEntity]
Unit == [tag |-> "unit", val |-> NoEntity]
Panic == [tag |-> "panic", val |-> NoEntity]

(* ------------------------------- state -------------------------------- *)
VARIABLES
    world,        \* the arena: slot -> [generation, alive]
    map,          \* EntityMap::map, a function from its keys to their values
    mapper,       \* the EntityMapper of the with_mapper call in progress, or NoMapper
    last,         \* the last call made and what it returned
    panicked,     \* a panic has unwound out of with_mapper: nothing runs after it
    inserted,     \* history: key -> the value of its latest insert not yet removed
    closedMinted, \* history: the identifiers minted by sessions that save has closed
    budget,       \* the generations the arena may consume in this run
    inner,        \* the EntityMapper of a with_mapper call made by the body, or NoMapper
    map2,         \* the table the inner with_mapper call works on
    spring,       \* a Spring component: its fields a and b, what map_entities returned
    calc          \* get_or_alloc's arithmetic on full-width u32 values

\* the state only the specifications of one operation change
aux == <<budget, map2, spring, calc>>

vars == <<world, map, mapper, last, panicked, inserted, closedMinted, inner, aux>>

\* no with_mapper call is in progress
NoMapper ==
    [state |-> "none", dead_start |-> NoEntity, generations |-> 0,
     allocs |-> << >>, liveBefore |-> {}, bodyTouched |-> FALSE,
     baseDespawned |-> FALSE]

IsOpen(mp) == mp.state = "open"

\* the identifiers a mapper has minted, in call order
Minted(mp) == [j \in 1 .. Len(mp.allocs) |-> mp.allocs[j].to]

MintedSet(mp) == {mp.allocs[j].to : j \in 1 .. Len(mp.allocs)}

\* a call: n and flag are, for save, the generations of the session it closes and
\* whether its body used the world, baseGone whether its body despawned
\* dead_start; body is the value the body of with_mapper returned and result
\* the value with_mapper returns
Call(op, arg, to, ret) ==
    [op |-> op, arg |-> arg, to |-> to, ret |-> ret, n |-> 0, flag |-> FALSE,
     baseGone |-> FALSE, body |-> Unit, result |-> Unit]

\* the values the body of with_mapper returns: R = Result<(), MapEntitiesError>
BodyResults == {Unit, EntityNotFound(Entity(0, 0))}

(* --------------------------- the World (arena) ------------------------ *)
\* an identifier is live iff its slot is alive at that generation
IsLive(w, e) ==
    /\ e.index \in Index
    /\ w[e.index].alive
    /\ w[e.index].generation = e.generation

Live(w) == {e \in Entities : IsLive(w, e)}

\* the slots spawn_empty may take: a freed slot, or the first slot never used
FreeSlots(w) ==
    {i \in Index :
        /\ ~w[i].alive
        /\ \/ w[i].generation > 0
           \/ \A j \in Index : j < i => (w[j].alive \/ w[j].generation > 0)}

\* World::spawn_empty on slot i of FreeSlots: the world it leaves
SpawnAt(w, i) == [w EXCEPT ![i].alive = TRUE]

\* World::spawn_empty on slot i of FreeSlots: the identifier it returns
SpawnedId(w, i) == Entity(i, w[i].generation)

\* World::despawn: the slot stops being alive and moves to its next generation
Despawn(w, e) ==
    IF IsLive(w, e)
    THEN [world |-> [w EXCEPT ![e.index] =
                        [generation |-> w[e.index].generation + 1, alive |-> FALSE]],
          ret |-> TRUE]
    ELSE [world |-> w, ret |-> FALSE]

\* World::try_reserve_generations: despawns e and moves its slot count generations
\* further, when e is, or was, the most recent identifier of its slot
TryReserveGenerations(w, e, count) ==
    IF IsLive(w, e)
    THEN [world |-> [w EXCEPT ![e.index] =
                        [generation |-> w[e.index].generation + 1 + count,
                         alive |-> FALSE]],
          ret |-> TRUE]
    ELSE IF /\ e.index \in Index
            /\ ~w[e.index].alive
            /\ w[e.index].generation = e.generation + 1
         THEN [world |-> [w EXCEPT ![e.index].generation = @ + count],
               ret |-> TRUE]
         ELSE [world |-> w, ret |-> FALSE]

\* the generations consumed so far, with those the open session will reserve
RECURSIVE SumGen(_, _)
SumGen(w, n) == IF n = 0 THEN 0 ELSE w[n - 1].generation + SumGen(w, n - 1)

Committed(w, mp) ==
    SumGen(w, NumIndex) + (IF IsOpen(mp) THEN mp.generations + 1 ELSE 0)

\* the generations the save of session mp will consume
Pending(mp) == IF IsOpen(mp) THEN mp.generations + 1 ELSE 0

(* ------------------------------ EntityMap ----------------------------- *)
\* HashMap::insert on the pair (from, to)
Put(m, from, to) == [k \in DOMAIN m \cup {from} |-> IF k = from THEN to ELSE m[k]]

\* HashMap::remove
Drop(m, k) == [x \in DOMAIN m \ {k} |-> m[x]]

\* EntityMap::len
EntityMapLen(m) == Cardinality(DOMAIN m)

\* a get that maps a missing key to itself instead of failing
EntityMapGetOrSelf(m, entity) ==
    IF entity \in DOMAIN m THEN Ok(m[entity]) ELSE Ok(entity)

\* EntityMap::get
EntityMapGet(m, entity) ==
    IF entity \in DOMAIN m THEN Ok(m[entity]) ELSE EntityNotFound(entity)

\* an insert that keeps the value of a key already present
EntityMapInsertIfAbsent(m, from, to) ==
    [map |-> IF from \in DOMAIN m THEN m ELSE Put(m, from, to),
     ret |-> IF from \in DOMAIN m THEN Some(m[from]) ELSE None]

\* an insert that returns the value it wrote instead of the one it replaced
EntityMapInsertReturnsNew(m, from, to) ==
    [map |-> Put(m, from, to),
     ret |-> IF from \in DOMAIN m THEN Some(to) ELSE None]

\* EntityMap::insert: the table it leaves and the value it returns
EntityMapInsert(m, from, to) ==
    [map |-> Put(m, from, to),
     ret |-> IF from \in DOMAIN m THEN Some(m[from]) ELSE None]

\* a remove that returns the value and leaves the entry in the table
EntityMapRemoveKeeps(m, entity) ==
    [map |-> m,
     ret |-> IF entity \in DOMAIN m THEN Some(m[entity]) ELSE None]

\* EntityMap::remove: the table it leaves and the value it returns
EntityMapRemove(m, entity) ==
    [map |-> Drop(m, entity),
     ret |-> IF entity \in DOMAIN m THEN Some(m[entity]) ELSE None]

(* ----------------------------- EntityMapper --------------------------- *)
\* EntityMapper::get
EntityMapperGet(m, entity) == EntityMapGet(m, entity)

\* a get_or_alloc that forgets to count the generation it hands out
EntityMapperGetOrAllocNoCount(mp, m, entity) ==
    IF EntityMapGet(m, entity).tag = "Ok"
    THEN [mapper |-> mp, map |-> m, ret |-> EntityMapGet(m, entity).val]
    ELSE LET new == Entity(mp.dead_start.index,
                           AddU32(mp.dead_start.generation, mp.generations))
         IN [mapper |-> [mp EXCEPT !.allocs = Append(@, [from |-> entity, to |-> new])],
             map |-> EntityMapInsert(m, entity, new).map,
             ret |-> new]

\* a get_or_alloc that allocates without looking the key up first
EntityMapperGetOrAllocAlways(mp, m, entity) ==
    LET new == Entity(mp.dead_start.index,
                      AddU32(mp.dead_start.generation, mp.generations))
    IN [mapper |-> [mp EXCEPT !.generations = AddU32(@, 1),
                              !.allocs = Append(@, [from |-> entity, to |-> new])],
        map |-> EntityMapInsert(m, entity, new).map,
        ret |-> new]

\* a get_or_alloc that counts a generation even when the key is already mapped
EntityMapperGetOrAllocCountsHit(mp, m, entity) ==
    LET new == Entity(mp.dead_start.index,
                      AddU32(mp.dead_start.generation, mp.generations))
    IN IF EntityMapGet(m, entity).tag = "Ok"
       THEN [mapper |-> [mp EXCEPT !.generations = AddU32(@, 1)],
             map |-> m,
             ret |-> EntityMapGet(m, entity).val]
       ELSE [mapper |-> [mp EXCEPT !.generations = AddU32(@, 1),
                                   !.allocs = Append(@, [from |-> entity, to |-> new])],
             map |-> EntityMapInsert(m, entity, new).map,
             ret |-> new]

\* EntityMapper::get_or_alloc: the mapper and the table it leaves, the value it
\* returns; allocs records each pair it inserts
EntityMapperGetOrAlloc(mp, m, entity) ==
    IF EntityMapGet(m, entity).tag = "Ok"
    THEN [mapper |-> mp, map |-> m, ret |-> EntityMapGet(m, entity).val]
    ELSE LET new == Entity(mp.dead_start.index,
                           AddU32(mp.dead_start.generation, mp.generations))
         IN [mapper |-> [mp EXCEPT !.generations = AddU32(@, 1),
                                   !.allocs = Append(@, [from |-> entity, to |-> new])],
             map |-> EntityMapInsert(m, entity, new).map,
             ret |-> new]

\* a new that starts the session with one generation already counted
EntityMapperNewStale(w, i) ==
    [state |-> "open", dead_start |-> SpawnedId(w, i), generations |-> 1,
     allocs |-> << >>, liveBefore |-> Live(w), bodyTouched |-> FALSE,
     baseDespawned |-> FALSE]

\* a new that takes generation 0 of the slot for dead_start, whatever
\* generation the slot has reached
EntityMapperNewFirstGeneration(w, i) ==
    [state |-> "open", dead_start |-> Entity(i, 0), generations |-> 0,
     allocs |-> << >>, liveBefore |-> Live(w), bodyTouched |-> FALSE,
     baseDespawned |-> FALSE]

\* a new that takes the identifier of slot 0 for dead_start, whichever slot
\* spawn_empty has just filled
EntityMapperNewSharedBase(w, i) ==
    [state |-> "open", dead_start |-> SpawnedId(w, 0), generations |-> 0,
     allocs |-> << >>, liveBefore |-> Live(w), bodyTouched |-> FALSE,
     baseDespawned |-> FALSE]

\* EntityMapper::new, with spawn_empty taking slot i
EntityMapperNew(w, i) ==
    [state |-> "open",
     dead_start |-> SpawnedId(w, i),
     generations |-> 0,
     allocs |-> << >>,
     liveBefore |-> Live(w),
     bodyTouched |-> FALSE,
     baseDespawned |-> FALSE]

\* a save that despawns dead_start and reserves nothing
EntityMapperSaveDespawnOnly(mp, w) == Despawn(w, mp.dead_start)

\* a save that leaves dead_start alive when nothing was minted
EntityMapperSaveKeepsBase(mp, w) ==
    IF mp.generations = 0
    THEN [world |-> w, ret |-> TRUE]
    ELSE TryReserveGenerations(w, mp.dead_start, mp.generations)

\* a save that reserves from the last identifier minted instead of dead_start
EntityMapperSaveFromLastMinted(mp, w) ==
    IF mp.generations = 0
    THEN Despawn(w, mp.dead_start)
    ELSE TryReserveGenerations(
             w,
             Entity(mp.dead_start.index,
                    mp.dead_start.generation + mp.generations - 1),
             mp.generations)

\* a save that makes its two calls without asserting what they return
EntityMapperSaveUnchecked(mp, w) ==
    IF mp.generations = 0
    THEN [world |-> Despawn(w, mp.dead_start).world, ret |-> TRUE]
    ELSE [world |-> TryReserveGenerations(w, mp.dead_start, mp.generations).world,
          ret |-> TRUE]

\* EntityMapper::save: the world it leaves and whether its assertion held
EntityMapperSave(mp, w) ==
    IF mp.generations = 0
    THEN Despawn(w, mp.dead_start)
    ELSE TryReserveGenerations(w, mp.dead_start, mp.generations)

(* ---------------------------- MapEntities ----------------------------- *)
\* a map_entities that writes its fields only once every lookup has succeeded
SpringMapEntitiesAllOrNothing(sp, m) ==
    LET ra == EntityMapperGet(m, sp.a)
        rb == EntityMapperGet(m, sp.b)
    IN IF ra.tag # "Ok" THEN [sp EXCEPT !.ret = ra]
       ELSE IF rb.tag # "Ok" THEN [sp EXCEPT !.ret = rb]
       ELSE [a |-> ra.val, b |-> rb.val, ret |-> Unit]

\* <Spring as MapEntities>::map_entities of the trait's example: field a, then
\* field b, each through EntityMapper::get and `?`; the component it leaves and,
\* in ret, what it returns (Unit stands for Ok(()))
SpringMapEntities(sp, m) ==
    LET ra == EntityMapperGet(m, sp.a)
    IN IF ra.tag # "Ok" THEN [sp EXCEPT !.ret = ra]
       ELSE LET rb == EntityMapperGet(m, sp.b)
            IN IF rb.tag # "Ok" THEN [a |-> ra.val, b |-> sp.b, ret |-> rb]
               ELSE [a |-> ra.val, b |-> rb.val, ret |-> Unit]

\* history: the body has used its &mut World
Touched(mp) ==
    IF IsOpen(mp) THEN [mp EXCEPT !.bodyTouched = TRUE, !.liveBefore = {}] ELSE mp

\* history: the body has despawned e; when e is the dead_start of its session,
\* the slot of dead_start is no longer the session's alone
DespawnedBase(mp, w, e) ==
    IF IsOpen(mp) /\ e = mp.dead_start /\ IsLive(w, e)
    THEN [mp EXCEPT !.baseDespawned = TRUE]
    ELSE mp

(* -------------------------------- Init -------------------------------- *)
\* no Spring component is under study
NoSpring == [a |-> NoEntity, b |-> NoEntity, ret |-> Unit]

\* no full-width computation is under study
NoCalc == [state |-> "none"]

\* a new World and a new EntityMap, no with_mapper call in progress
Start ==
    /\ world = [i \in Index |-> [generation |-> 0, alive |-> FALSE]]
    /\ map = << >>
    /\ mapper = NoMapper
    /\ last = Call("none", NoEntity, NoEntity, Unit)
    /\ panicked = FALSE
    /\ inserted = << >>
    /\ closedMinted = {}
    /\ inner = NoMapper
    /\ map2 = << >>

Init ==
    /\ Start
    /\ budget = MaxGen
    /\ spring = NoSpring
    /\ calc = NoCalc

(* ------------------------------- actions ------------------------------ *)
\* World::spawn_empty, by the caller or by the body through its &mut World
SpawnEmpty ==
    \E i \in FreeSlots(world) :
        /\ ~panicked
        /\ world' = SpawnAt(world, i)
        /\ last' = Call("spawn_empty", NoEntity, NoEntity, Ok(SpawnedId(world, i)))
        /\ mapper' = Touched(mapper)
        /\ inner' = Touched(inner)
        /\ UNCHANGED <<map, panicked, inserted, closedMinted, aux>>

\* World::despawn, by the caller or by the body through its &mut World
DespawnEntity ==
    \E e \in {Entity(i, world[i].generation) : i \in Index} :
        /\ ~panicked
        /\ Committed(world, mapper) + Pending(inner) < budget
        /\ world' = Despawn(world, e).world
        /\ last' = Call("despawn", e, NoEntity, Bool(Despawn(world, e).ret))
        /\ mapper' = DespawnedBase(Touched(mapper), world, e)
        /\ inner' = DespawnedBase(Touched(inner), world, e)
        /\ UNCHANGED <<map, panicked, inserted, closedMinted, aux>>

\* EntityMap::insert, by the owner of the table
Insert ==
    \E from \in ForeignIds, to \in Targets :
        /\ ~panicked
        /\ ~IsOpen(mapper)
        /\ map' = EntityMapInsert(map, from, to).map
        /\ last' = Call("insert", from, to, EntityMapInsert(map, from, to).ret)
        /\ inserted' = Put(inserted, from, to)
        /\ UNCHANGED <<world, mapper, panicked, closedMinted, inner, aux>>

\* EntityMap::remove, by the owner of the table
Remove ==
    \E entity \in ForeignIds :
        /\ ~panicked
        /\ ~IsOpen(mapper)
        /\ map' = EntityMapRemove(map, entity).map
        /\ last' = Call("remove", entity, NoEntity, EntityMapRemove(map, entity).ret)
        /\ inserted' = Drop(inserted, entity)
        /\ UNCHANGED <<world, mapper, panicked, closedMinted, inner, aux>>

\* EntityMap::get, by the owner of the table
Get ==
    \E entity \in ForeignIds :
        /\ ~panicked
        /\ ~IsOpen(mapper)
        /\ last' = Call("get", entity, NoEntity, EntityMapGet(map, entity))
        /\ UNCHANGED <<world, map, mapper, panicked, inserted, closedMinted, inner, aux>>

\* with_mapper up to the call of the body: EntityMapper::new
WithMapperOpen ==
    \E i \in FreeSlots(world) :
        /\ ~panicked
        /\ ~IsOpen(mapper)
        /\ Committed(world, mapper) + Pending(inner) < budget
        /\ world' = SpawnAt(world, i)
        /\ mapper' = EntityMapperNew(world, i)
        /\ last' = Call("new", NoEntity, NoEntity, Ok(SpawnedId(world, i)))
        /\ UNCHANGED <<map, panicked, inserted, closedMinted, inner, aux>>

\* the body calls EntityMapper::get
MapperGet ==
    \E entity \in ForeignIds :
        /\ ~panicked
        /\ IsOpen(mapper)
        /\ last' = Call("mapper_get", entity, NoEntity, EntityMapperGet(map, entity))
        /\ UNCHANGED <<world, map, mapper, panicked, inserted, closedMinted, inner, aux>>

\* the body calls EntityMapper::get_or_alloc
MapperGetOrAlloc ==
    \E entity \in ForeignIds :
        /\ ~panicked
        /\ IsOpen(mapper)
        /\ \/ entity \in DOMAIN map
           \/ Committed(world, mapper) + Pending(inner) < budget
        /\ LET r == EntityMapperGetOrAlloc(mapper, map, entity)
           IN /\ mapper' = r.mapper
              /\ map' = r.map
              /\ last' = Call("get_or_alloc", entity, NoEntity, Ok(r.ret))
        /\ UNCHANGED <<world, panicked, inserted, closedMinted, inner, aux>>

\* the body returns result, with_mapper runs EntityMapper::save and returns result
WithMapperClose ==
    \E result \in BodyResults :
    /\ ~panicked
    /\ IsOpen(mapper)
    /\ ~IsOpen(inner)
    /\ LET s == EntityMapperSave(mapper, world)
       IN /\ world' = s.world
          /\ last' = [Call("save", mapper.dead_start, NoEntity,
                           IF s.ret THEN Unit ELSE Panic)
                         EXCEPT !.n = mapper.generations,
                                !.flag = mapper.bodyTouched,
                                !.baseGone = mapper.baseDespawned,
                                !.body = result,
                                !.result = IF s.ret THEN result ELSE Panic]
          /\ mapper' = NoMapper
          /\ closedMinted' = IF s.ret THEN closedMinted \cup MintedSet(mapper)
                             ELSE closedMinted
          /\ panicked' = ~s.ret
    /\ UNCHANGED <<map, inserted, inner, aux>>

\* the body panics: with_mapper unwinds before it reaches save
BodyPanic ==
    /\ ~panicked
    /\ IsOpen(mapper)
    /\ ~IsOpen(inner)
    /\ mapper' = NoMapper
    /\ last' = Call("body", mapper.dead_start, NoEntity, Panic)
    /\ panicked' = TRUE
    /\ UNCHANGED <<world, map, inserted, closedMinted, inner, aux>>

Next ==
    \/ SpawnEmpty
    \/ DespawnEntity
    \/ Insert
    \/ Remove
    \/ Get
    \/ WithMapperOpen
    \/ MapperGet
    \/ MapperGetOrAlloc
    \/ WithMapperClose
    \/ BodyPanic

Spec == Init /\ [][Next]_vars

(* --------------------- the Spring example, alone ---------------------- *)
\* the body calls map_entities on the Spring component with its mapper
MapEntitiesSpring ==
    /\ ~panicked
    /\ IsOpen(mapper)
    /\ spring' = SpringMapEntities(spring, map)
    /\ last' = Call("map_entities", spring.a, spring.b, SpringMapEntities(spring, map).ret)
    /\ UNCHANGED <<world, map, mapper, panicked, inserted, closedMinted, inner,
                   budget, map2, calc>>

\* a Spring whose fields hold foreign identifiers, in a new World
InitSpring ==
    /\ Start
    /\ budget = MaxGen
    /\ spring \in {[a |-> x, b |-> y, ret |-> Unit] : x \in ForeignIds, y \in ForeignIds}
    /\ calc = NoCalc

NextSpring ==
    \/ Insert
    \/ Remove
    \/ WithMapperOpen
    \/ MapperGetOrAlloc
    \/ MapEntitiesSpring
    \/ WithMapperClose

SpecSpring == InitSpring /\ [][NextSpring]_vars

(* ------------- a table written by get_or_alloc only ------------------- *)
\* no insert, remove or get by the owner: the table starts empty and only the
\* sessions of with_mapper write to it
InitAlloc ==
    /\ Start
    /\ budget = MaxGen + 1
    /\ spring = NoSpring
    /\ calc = NoCalc

NextAlloc ==
    \/ SpawnEmpty
    \/ DespawnEntity
    \/ WithMapperOpen
    \/ MapperGetOrAlloc
    \/ WithMapperClose

SpecAlloc == InitAlloc /\ [][NextAlloc]_vars

(* ------------------ with_mapper inside with_mapper -------------------- *)
\* the body of the open session calls with_mapper on a second table with the
\* World it was given: EntityMapper::new of the inner session
InnerOpen ==
    \E i \in FreeSlots(world) :
        /\ ~panicked
        /\ IsOpen(mapper)
        /\ ~IsOpen(inner)
        /\ Committed(world, mapper) + Pending(inner) < budget
        /\ world' = SpawnAt(world, i)
        /\ inner' = EntityMapperNew(world, i)
        /\ mapper' = Touched(mapper)
        /\ last' = Call("inner_new", NoEntity, NoEntity, Ok(SpawnedId(world, i)))
        /\ UNCHANGED <<map, panicked, inserted, closedMinted, aux>>

\* the inner body calls EntityMapper::get_or_alloc on its mapper
InnerGetOrAlloc ==
    \E entity \in ForeignIds :
        /\ ~panicked
        /\ IsOpen(inner)
        /\ \/ entity \in DOMAIN map2
           \/ Committed(world, mapper) + Pending(inner) < budget
        /\ LET r == EntityMapperGetOrAlloc(inner, map2, entity)
           IN /\ inner' = r.mapper
              /\ map2' = r.map
              /\ last' = Call("inner_get_or_alloc", entity, NoEntity, Ok(r.ret))
        /\ UNCHANGED <<world, map, mapper, panicked, inserted, closedMinted,
                       budget, spring, calc>>

\* the inner body returns and the inner with_mapper runs EntityMapper::save
InnerClose ==
    \E result \in BodyResults :
    /\ ~panicked
    /\ IsOpen(inner)
    /\ LET s == EntityMapperSave(inner, world)
       IN /\ world' = s.world
          /\ last' = [Call("inner_save", inner.dead_start, NoEntity,
                           IF s.ret THEN Unit ELSE Panic)
                         EXCEPT !.n = inner.generations,
                                !.flag = inner.bodyTouched,
                                !.baseGone = inner.baseDespawned,
                                !.body = result,
                                !.result = IF s.ret THEN result ELSE Panic]
          /\ inner' = NoMapper
          /\ closedMinted' = IF s.ret THEN closedMinted \cup MintedSet(inner)
                             ELSE closedMinted
          /\ panicked' = ~s.ret
    /\ mapper' = Touched(mapper)
    /\ UNCHANGED <<map, inserted, aux>>

InitNested ==
    /\ Start
    /\ budget = MaxGen + 1
    /\ spring = NoSpring
    /\ calc = NoCalc

NextNested ==
    \/ SpawnEmpty
    \/ DespawnEntity
    \/ WithMapperOpen
    \/ MapperGetOrAlloc
    \/ InnerOpen
    \/ InnerGetOrAlloc
    \/ InnerClose
    \/ WithMapperClose

SpecNested == InitNested /\ [][NextNested]_vars

(* ------------- get_or_alloc's sum on full-width u32 values ------------ *)
\* a u32 as two 16-bit halves, hi * 2^16 + lo: the model checker's integers
\* stop below 2^32
Half == 2 ^ 16

U32(hi, lo) == [hi |-> hi, lo |-> lo]

U32Less(x, y) == x.hi < y.hi \/ (x.hi = y.hi /\ x.lo < y.lo)

\* x + y of two u32: the low 32 bits of the sum and whether it passed 2^32 - 1
U32Add(x, y) ==
    LET lo == x.lo + y.lo
        hi == x.hi + y.hi + (lo \div Half)
    IN [val |-> U32(hi % Half, lo % Half), overflow |-> hi >= Half]

\* what `+` does when the sum overflows: it panics in a build with overflow
\* checks (debug), it wraps in a build without them (release)
Builds == {"debug", "release"}

\* the generations a slot of the arena can have reached when new spawns
\* dead_start at it: the lowest and the highest values of a u32
BaseGenerations ==
    {U32(hi, lo) : hi \in {0, 1, Half - 2, Half - 1},
                   lo \in (0 .. MaxGen) \cup ((Half - 1 - MaxGen) .. (Half - 1))}

\* EntityMapper::new on a slot of generation base: generations is 0
InitWrap ==
    /\ Start
    /\ budget = MaxGen
    /\ spring = NoSpring
    /\ calc \in {[state |-> "open", base |-> b, generations |-> U32(0, 0),
                  minted |-> b, count |-> 0] : b \in BaseGenerations}

\* get_or_alloc of a key that is not mapped: the generation of the identifier
\* it makes is dead_start.generation + generations, then generations += 1;
\* minted is that generation and count the number of identifiers made
GetOrAllocSum ==
    \E build \in Builds :
        /\ calc.state = "open"
        /\ calc.count < MaxGen
        /\ LET sum == U32Add(calc.base, calc.generations)
               inc == U32Add(calc.generations, U32(0, 1))
           IN calc' = IF (sum.overflow \/ inc.overflow) /\ build = "debug"
                      THEN [calc EXCEPT !.state = "panic"]
                      ELSE [calc EXCEPT !.minted = sum.val,
                                        !.generations = inc.val,
                                        !.count = @ + 1]
        /\ UNCHANGED <<world, map, mapper, last, panicked, inserted, closedMinted,
                       inner, budget, map2, spring>>

NextWrap == GetOrAllocSum

SpecWrap == InitWrap /\ [][NextWrap]_vars

(* ------------------------------- claims ------------------------------- *)
\* call c is a spawn_empty of the arena: the caller's, the body's, or the one
\* EntityMapper::new makes; c.ret.val is the identifier it returned
IsSpawn(c) == c.op \in {"spawn_empty", "new"}

\* C1 -- no live collision: once a session that minted placeholders has been closed
\* by save, every spawn_empty of the arena returns an identifier that is none of
\* the minted ones, and at the index of a minted one has a higher generation.
C1_NoLiveCollision ==
    IsSpawn(last) =>
        \A m \in closedMinted :
            /\ last.ret.val # m
            /\ m.index = last.ret.val.index => last.ret.val.generation > m.generation

\* a spawn_empty takes the very slot in which a closed session minted two placeholders
C1_Witness ==
    /\ last.op = "spawn_empty"
    /\ Cardinality({m \in closedMinted : m.index = last.ret.val.index}) >= 2

\* C2 -- no identifier minted by get_or_alloc is live in the arena, from the moment
\* it is returned (while its session is still open) and ever after.
C2_MintedNeverLive ==
    \A m \in MintedSet(mapper) \cup closedMinted : ~IsLive(world, m)

\* C3 -- placeholder run: at every point of a session the identifiers minted so far
\* are dead_start.index at the generations dead_start.generation + j, 0 <= j <
\* generations: the j-th minted (from 0, in call order) has generation
\* dead_start.generation + j, and they are pairwise distinct.
C3_PlaceholderRun ==
    IsOpen(mapper) =>
        LET d == mapper.dead_start
            ids == Minted(mapper)
        IN /\ Len(ids) = mapper.generations
           /\ \A j \in 1 .. Len(ids) : ids[j] = Entity(d.index, d.generation + (j - 1))
           /\ \A j, k \in 1 .. Len(ids) : j # k => ids[j] # ids[k]
           /\ MintedSet(mapper) =
                  {Entity(d.index, d.generation + j) : j \in 0 .. (mapper.generations - 1)}

\* a session that has minted two placeholders
C3_Witness == IsOpen(mapper) /\ mapper.generations >= 2

\* the index j at which the session minted for key f, 0 when it has not
AllocOf(mp, f) ==
    IF \E j \in 1 .. Len(mp.allocs) : mp.allocs[j].from = f
    THEN CHOOSE j \in 1 .. Len(mp.allocs) : mp.allocs[j].from = f
    ELSE 0

\* C4 -- allocating idempotence: in a session, get_or_alloc(f) on an unmapped f mints
\* once (table size and generations each grow by one); every later get_or_alloc(f)
\* of the session, whatever get and get_or_alloc calls for other keys came between,
\* returns that same identifier and changes neither the size nor generations.
C4_AllocIdempotent ==
    [][(IsOpen(mapper) /\ last'.op = "get_or_alloc") =>
          LET f == last'.arg
              j == AllocOf(mapper, f)
          IN IF j # 0
             THEN /\ last'.ret = Ok(mapper.allocs[j].to)
                  /\ EntityMapLen(map') = EntityMapLen(map)
                  /\ mapper'.generations = mapper.generations
             ELSE f \notin DOMAIN map =>
                  /\ EntityMapLen(map') = EntityMapLen(map) + 1
                  /\ mapper'.generations = mapper.generations + 1
                  /\ AllocOf(mapper', f) = Len(mapper.allocs) + 1
                  /\ last'.ret = Ok(mapper'.allocs[Len(mapper'.allocs)].to)
      ]_vars

\* get_or_alloc(f) is called again after the session minted for f and then for
\* another key, and returns what it minted for f
C4_Witness ==
    /\ IsOpen(mapper)
    /\ last.op = "get_or_alloc"
    /\ Len(mapper.allocs) = 2
    /\ mapper.allocs[1].from = last.arg
    /\ last.ret = Ok(mapper.allocs[1].to)
    /\ EntityMapLen(map) = 2

\* C5 -- close always runs: however the body is left (return, early return of an
\* error value, panic), no state is reached in which with_mapper has been left
\* and the temporary entity dead_start is still live.
C5_CloseAlwaysRuns ==
    last.op \in {"save", "body"} => ~IsLive(world, last.arg)

\* C6 -- zero-allocation cleanup: when a session that minted nothing, and whose body
\* neither spawned nor despawned, is closed, the live entities of the arena are
\* those that were live before it was opened.
C6_ZeroAllocCleanup ==
    [][(IsOpen(mapper) /\ last'.op = "save"
            /\ mapper.generations = 0 /\ ~mapper.bodyTouched) =>
          /\ Live(world') = mapper.liveBefore
          /\ last'.ret = Unit
      ]_vars

\* such a session has just been closed around an entity that stays live
C6_Witness ==
    /\ last.op = "save"
    /\ last.n = 0
    /\ ~last.flag
    /\ last.ret = Unit
    /\ Live(world) # {}
    /\ ~IsLive(world, last.arg)

\* C7 -- missing-key failure: EntityMap::get and EntityMapper::get on an identifier
\* that is no key of the table return EntityNotFound carrying that identifier, and
\* change neither the table, nor the mapper (its generations), nor the arena.
C7_MissingKeyFails ==
    [][(last'.op \in {"get", "mapper_get"} /\ last'.arg \notin DOMAIN map) =>
          /\ last'.ret = EntityNotFound(last'.arg)
          /\ map' = map
          /\ mapper' = mapper
          /\ world' = world
      ]_vars

\* EntityMapper::get fails on a key absent from a table the session has added to
C7_Witness ==
    /\ last.op = "mapper_get"
    /\ last.ret = EntityNotFound(last.arg)
    /\ mapper.generations > 0
    /\ map # << >>

\* C8 -- idempotent lookup: while the latest insert of key f is insert(f, l) and no
\* remove(f) followed it, every get(f), on the table or on the mapper, returns l;
\* and no get changes the table, the mapper (its generations) or the arena.
C8_IdempotentLookup ==
    [][last'.op \in {"get", "mapper_get"} =>
          /\ last'.arg \in DOMAIN inserted => last'.ret = Ok(inserted[last'.arg])
          /\ map' = map
          /\ mapper' = mapper
          /\ world' = world
      ]_vars

\* inside a session, EntityMapper::get returns the value inserted for a key
C8_Witness ==
    /\ last.op = "mapper_get"
    /\ last.arg \in DOMAIN inserted
    /\ last.ret = Ok(inserted[last.arg])
    /\ IsOpen(mapper)

\* C9 -- insert(from, to) is a finite-function update: from becomes a key mapped to
\* to, whether or not to is live; every other key keeps its value; when from was a
\* key the previous value is returned and len is unchanged, otherwise the absence
\* marker is returned and len grows by one.
C9_InsertUpdates ==
    [][last'.op = "insert" =>
          LET from == last'.arg
              to == last'.to
          IN /\ DOMAIN map' = DOMAIN map \cup {from}
             /\ map'[from] = to
             /\ \A k \in DOMAIN map \ {from} : map'[k] = map[k]
             /\ IF from \in DOMAIN map
                THEN /\ last'.ret = Some(map[from])
                     /\ EntityMapLen(map') = EntityMapLen(map)
                ELSE /\ last'.ret = None
                     /\ EntityMapLen(map') = EntityMapLen(map) + 1
      ]_vars

\* an insert has replaced another value of its key by an identifier that is not live
C9_Witness ==
    /\ last.op = "insert"
    /\ last.ret.tag = "Some"
    /\ last.ret.val # last.to
    /\ map[last.arg] = last.to
    /\ ~IsLive(world, last.to)
    /\ EntityMapLen(map) = 2

\* C10 -- remove(f) on a key returns its value and deletes that entry alone (len
\* one less, every other entry as before); on an identifier that is no key it
\* returns the absence marker and leaves the table, and len, as they were.
C10_RemoveDeletes ==
    [][last'.op = "remove" =>
          LET f == last'.arg
          IN /\ DOMAIN map' = DOMAIN map \ {f}
             /\ \A k \in DOMAIN map' : map'[k] = map[k]
             /\ IF f \in DOMAIN map
                THEN /\ last'.ret = Some(map[f])
                     /\ EntityMapLen(map') = EntityMapLen(map) - 1
                ELSE /\ last'.ret = None
                     /\ map' = map
                     /\ EntityMapLen(map') = EntityMapLen(map)
      ]_vars

\* a remove has returned the value of its key and left the other entry
C10_Witness ==
    /\ last.op = "remove"
    /\ last.ret.tag = "Some"
    /\ last.arg \notin DOMAIN map
    /\ EntityMapLen(map) = 1

\* C11 -- with_mapper runs new, the body and save in that order, each once: the
\* step that opens a session is new, it makes exactly one spawn_empty, whose
\* identifier is dead_start, and starts generations at 0; the body's calls of the
\* mapper happen only in an open session, whose dead_start they leave alone; the
\* step that ends a session whose body returned is save, made once, on that
\* dead_start, and with_mapper then returns the value the body returned
C11_Opens ==
    (IsOpen(mapper') /\ ~IsOpen(mapper)) =>
        /\ last'.op = "new"
        /\ mapper'.dead_start = last'.ret.val
        /\ mapper'.generations = 0
        /\ mapper'.allocs = << >>
        /\ ~IsLive(world, mapper'.dead_start)
        /\ Live(world') = Live(world) \cup {mapper'.dead_start}
        /\ map' = map

C11_Body ==
    /\ last'.op \in {"mapper_get", "get_or_alloc"} =>
           (IsOpen(mapper) /\ IsOpen(mapper') /\ world' = world)
    /\ (IsOpen(mapper) /\ IsOpen(mapper')) => mapper'.dead_start = mapper.dead_start
    /\ last'.op = "new" => ~IsOpen(mapper)

C11_Closes ==
    /\ last'.op = "save" => (IsOpen(mapper) /\ ~IsOpen(mapper'))
    /\ (IsOpen(mapper) /\ ~IsOpen(mapper') /\ last'.op # "body") =>
           /\ last'.op = "save"
           /\ last'.arg = mapper.dead_start
           /\ map' = map
           /\ last'.ret = Unit =>
                  /\ last'.result = last'.body
                  /\ ~world'[mapper.dead_start.index].alive
                  /\ \A i \in Index \ {mapper.dead_start.index} : world'[i] = world[i]
           /\ last'.ret # Unit => (last'.result = Panic /\ world' = world)

C11_WithMapperOrder == [][C11_Opens /\ C11_Body /\ C11_Closes]_vars

\* a session that minted and whose body used the world and returned an error
\* value has been closed by save, and with_mapper has returned that value
C11_Witness ==
    /\ last.op = "save"
    /\ last.ret = Unit
    /\ last.n > 0
    /\ last.flag
    /\ last.result = EntityNotFound(Entity(0, 0))

\* C12 -- map_entities of Spring looks field a up, then field b, with get: it
\* fails with EntityNotFound of the first of them that is not a key and succeeds
\* only when both are keys; the fields before the failing one hold their mapped
\* values, the failing one and those after it their old ones; no identifier is
\* minted, and the table, the mapper and the arena are as before
C12_StrictLookup ==
    [][last'.op = "map_entities" =>
        /\ spring.a \notin DOMAIN map =>
               /\ last'.ret = EntityNotFound(spring.a)
               /\ spring'.a = spring.a
               /\ spring'.b = spring.b
        /\ (spring.a \in DOMAIN map /\ spring.b \notin DOMAIN map) =>
               /\ last'.ret = EntityNotFound(spring.b)
               /\ spring'.a = map[spring.a]
               /\ spring'.b = spring.b
        /\ (spring.a \in DOMAIN map /\ spring.b \in DOMAIN map) =>
               /\ last'.ret = Unit
               /\ spring'.a = map[spring.a]
               /\ spring'.b = map[spring.b]
        /\ last'.ret = Unit => (spring.a \in DOMAIN map /\ spring.b \in DOMAIN map)
        /\ spring'.ret = last'.ret
        /\ map' = map
        /\ mapper' = mapper
        /\ world' = world]_vars

\* in a session that has minted, map_entities failed on field b after it had
\* rewritten field a to a different identifier
C12_Witness ==
    /\ last.op = "map_entities"
    /\ IsOpen(mapper)
    /\ mapper.generations > 0
    /\ last.arg \in DOMAIN map
    /\ last.ret = EntityNotFound(last.to)
    /\ spring.a = map[last.arg]
    /\ spring.a # last.arg
    /\ spring.b = last.to

\* C13 -- get_or_alloc of a key the table already holds, whoever put it there,
\* returns the value the table holds for it and changes neither the table, nor
\* the mapper with its generations counter, nor the arena
C13_ExistingKeyNoEffect ==
    [][(last'.op = "get_or_alloc" /\ last'.arg \in DOMAIN map) =>
        /\ last'.ret = Ok(map[last'.arg])
        /\ map' = map
        /\ mapper'.generations = mapper.generations
        /\ mapper' = mapper
        /\ world' = world]_vars

\* a session that has minted for another key has called get_or_alloc on a key
\* the caller inserted before the session: it got the inserted value back
C13_Witness ==
    /\ last.op = "get_or_alloc"
    /\ IsOpen(mapper)
    /\ mapper.generations > 0
    /\ last.arg \in DOMAIN inserted
    /\ AllocOf(mapper, last.arg) = 0
    /\ last.ret = Ok(inserted[last.arg])
    /\ last.ret.val \notin MintedSet(mapper)

\* C14 -- when the body has not despawned dead_start (a spawn or a further
\* despawn at dead_start's slot can only follow that despawn), whatever it
\* spawned and despawned elsewhere, neither assertion of save fails: the
\* despawn of a session that minted nothing and the reservation of one that
\* minted both succeed
C14_AssertionsHold ==
    [][(last'.op = "save" /\ IsOpen(mapper) /\ ~mapper.baseDespawned) =>
        /\ last'.ret = Unit
        /\ ~panicked'
        /\ ~IsLive(world', mapper.dead_start)]_vars

\* save has closed without failure a session that minted and whose body
\* spawned or despawned other entities but left dead_start alone
C14_Witness ==
    /\ last.op = "save"
    /\ last.ret = Unit
    /\ last.n > 0
    /\ last.flag
    /\ ~last.baseGone

\* the slot of the open session's dead_start has been spawned at again since the
\* body despawned dead_start: dead_start is no longer its most recent identifier
SlotReused(mp, w) ==
    \/ w[mp.dead_start.index].alive
    \/ w[mp.dead_start.index].generation # mp.dead_start.generation + 1

\* C15 as stated -- whenever the body has despawned dead_start before it
\* returns, save fails its assertion and with_mapper does not return normally
C15_DespawnedBaseAborts ==
    [][(last'.op = "save" /\ IsOpen(mapper) /\ mapper.baseDespawned) =>
        last'.ret = Panic]_vars

\* C15 -- when the body has despawned dead_start, save fails its assertion, and
\* leaves the arena as it found it, if the session minted nothing or if the slot
\* has been spawned at again; if the session minted and the slot has not been
\* reused, dead_start still was the slot's most recent identifier and the
\* reservation succeeds.  save never moves the generation of a slot whose most
\* recent identifier is not dead_start
C15_DivergedSlotAborts ==
    [][(last'.op = "save" /\ IsOpen(mapper)) =>
        /\ (mapper.baseDespawned
              /\ (mapper.generations = 0 \/ SlotReused(mapper, world))) =>
               /\ last'.ret = Panic
               /\ panicked'
               /\ world' = world
        /\ (mapper.baseDespawned
              /\ mapper.generations > 0 /\ ~SlotReused(mapper, world)) =>
               /\ last'.ret = Unit
               /\ world'[mapper.dead_start.index].generation =
                      mapper.dead_start.generation + 1 + mapper.generations
        /\ world' # world =>
               (IsLive(world, mapper.dead_start) \/ ~SlotReused(mapper, world))]_vars

\* the body of a session that minted despawned dead_start and the slot was
\* spawned at again: save failed its assertion
C15_Witness ==
    /\ last.op = "save"
    /\ last.baseGone
    /\ last.n > 0
    /\ last.ret = Panic
    /\ panicked
    /\ world[last.arg.index].alive

\* C16 -- in a table that starts empty and that only get_or_alloc writes to,
\* over every sequence of with_mapper sessions and of spawns and despawns
\* between and inside them, two different keys never hold the same identifier
C16_Injective ==
    \A f1 \in DOMAIN map : \A f2 \in DOMAIN map : f1 # f2 => map[f1] # map[f2]

\* the table holds a key minted by a closed session and a key minted by the
\* session now open, whose dead_start took the slot the closed one had used
C16_Witness ==
    /\ IsOpen(mapper)
    /\ last.op = "get_or_alloc"
    /\ \E f1 \in DOMAIN map : \E f2 \in DOMAIN map :
           /\ f1 # f2
           /\ map[f1] \in closedMinted
           /\ map[f2] \in MintedSet(mapper)
           /\ map[f1].index = map[f2].index

\* C17 -- a with_mapper session opened and closed inside the body of an open
\* one, on the same arena, neither body despawning its dead_start: the two
\* dead_starts have different indices; no identifier is minted by both, nor by
\* the outer session and a session already closed; the save of each succeeds;
\* and no spawn_empty, the ones of new included, returns an identifier that a
\* session closed by save had minted
C17_Apart ==
    /\ (IsOpen(inner) /\ ~mapper.baseDespawned) =>
           /\ IsOpen(mapper)
           /\ inner.dead_start.index # mapper.dead_start.index
           /\ MintedSet(inner) \cap MintedSet(mapper) = {}
    /\ (IsOpen(mapper) /\ ~mapper.baseDespawned) =>
           closedMinted \cap MintedSet(mapper) = {}

C17_Saves ==
    /\ (last'.op = "inner_save" /\ IsOpen(inner) /\ ~inner.baseDespawned) =>
           (last'.ret = Unit /\ ~panicked' /\ IsOpen(mapper'))
    /\ (last'.op = "save" /\ IsOpen(mapper) /\ ~mapper.baseDespawned) =>
           (last'.ret = Unit /\ ~panicked')

C17_NoReturn ==
    last'.op \in {"spawn_empty", "new", "inner_new"} =>
        last'.ret.val \notin closedMinted'

C17_NestedSafe == [][C17_Apart' /\ C17_Saves /\ C17_NoReturn]_vars

\* both sessions minted, the inner one was closed inside the outer one, the
\* outer one after it, and a spawn_empty has been made since
C17_Witness ==
    /\ last.op = "spawn_empty"
    /\ ~IsOpen(mapper)
    /\ ~panicked
    /\ DOMAIN map # {}
    /\ DOMAIN map2 # {}
    /\ \A f \in DOMAIN map : map[f] \in closedMinted
    /\ \A f \in DOMAIN map2 : map2[f] \in closedMinted
    /\ \E f \in DOMAIN map : \E g \in DOMAIN map2 : map[f].index # map2[g].index

\* C18 -- whatever generation dead_start has and however many identifiers the
\* session mints, dead_start.generation + generations does not overflow a u32:
\* get_or_alloc does not panic on the sum, and the generation it mints is never
\* below dead_start.generation
C18_NoWrapAround ==
    calc.state # "none" =>
        /\ calc.state # "panic"
        /\ calc.count > 0 => ~U32Less(calc.minted, calc.base)

====
